---- MODULE Spec2Model ----
(***************************************************************************)
(* Model of the recall scorer (sae_auto_interp/scorers/recall/recall.py):  *)
(* Sample assembly and chunking (_prepare), the concurrent dispatch of one *)
(* query task per batch under asyncio.gather (process_batches), and the    *)
(* parsing of structured and free-text judge responses (query); and the    *)
(* loop of scripts/score.py that builds the ScorerInput list.              *)
(***************************************************************************)
EXTENDS Integers, Sequences, FiniteSets, TLC

VARIABLES
    random_examples,  \* scorer_in.record.random_examples
    test_examples,    \* scorer_in.test_examples (activating groups)
    explanation,      \* scorer_in.explanation
    batch_size,       \* RecallScorer.batch_size
    samples,          \* the Sample objects, in the order _prepare builds its list
    batches,          \* _prepare's return value: lists of references into samples
    pc,               \* position of __call__: new, prepared, gather, returned, raised
    tasks,            \* one record per query task handed to asyncio.gather
    requests,         \* log of client.generate calls, in the order they are made
    done_order,       \* batch numbers of the tasks that returned, in completion order
    last,             \* the most recent outcome of an awaited client.generate
    gather_exc,       \* the exception set on gather's future ("" when none)
    raised,           \* the exception __call__ propagated ("" when none)
    returned,         \* the list __call__ returned
    callbacks,        \* the ended tasks gather's done callback has yet to run for
    fail_order,       \* the tasks that raised, in the order they raised
    gather_from,      \* the task whose exception gather's future holds, 0 if none
    records,          \* score.py: per feature record, how its try block ends
    script_pc,        \* score.py: loop, done (the loop ended) or aborted
    cursor,           \* score.py: number of the record the loop handles next
    globals,          \* score.py: what explanation, test and extra are bound to
    scorer_inputs,    \* score.py: the scorer_inputs list
    record_extra,     \* score.py: record.extra of each record
    logged            \* score.py: the records logger.error was called for

recallVars == <<random_examples, test_examples, explanation, batch_size, samples,
                batches, pc, tasks, requests, done_order, last, gather_exc,
                raised, returned, callbacks, fail_order, gather_from>>

scriptVars == <<records, script_pc, cursor, globals, scorer_inputs, record_extra,
                logged>>

vars == <<recallVars, scriptVars>>

-----------------------------------------------------------------------------
(* Bounds of the model *)

MaxRandom == 2
MaxGroups == 2
MaxGroupLen == 2
MaxBatchSize == 3
MaxTotal == 3
MaxBatches == 2
MaxRecords == 4
MaxBatchedTotal == 4

-----------------------------------------------------------------------------
(* Generic helpers *)

SeqsUpTo(S, n) == UNION {[1..k -> S] : k \in 0..n}

RECURSIVE SumLens(_)
SumLens(groups) ==
    IF groups = <<>> THEN 0 ELSE Len(Head(groups)) + SumLens(Tail(groups))

Min(a, b) == IF a < b THEN a ELSE b

\* Python's range(start, stop, step) for step >= 1, as a sequence
RECURSIVE PyRange(_, _, _)
PyRange(start, stop, step) ==
    IF start >= stop THEN <<>> ELSE <<start>> \o PyRange(start + step, stop, step)

\* Python's seq[lo:hi] for 0 <= lo, with hi clamped to len(seq); lo, hi 0-based
PySlice(seq, lo, hi) ==
    [k \in 1..(Min(hi, Len(seq)) - Min(lo, Len(seq))) |-> seq[lo + k]]

\* Python's [x for sub in lists for x in sub]
RECURSIVE Flatten(_)
Flatten(lists) ==
    IF lists = <<>> THEN <<>> ELSE Head(lists) \o Flatten(Tail(lists))

-----------------------------------------------------------------------------
(* The decoder collaborator and the raw examples *)

Vocab == <<"a", "b">>

\* tokenizer.decode: the concatenation of the tokens' strings
RECURSIVE Decode(_)
Decode(tokens) ==
    IF tokens = <<>> THEN "" ELSE Vocab[Head(tokens)] \o Decode(Tail(tokens))

ExamplePool == {[tokens |-> <<1>>], [tokens |-> <<2, 1>>]}

DispatchRandomPool == {[tokens |-> <<1>>]}
DispatchActivatingPool == {[tokens |-> <<2, 1>>]}

Explanations == {"fires on a"}

-----------------------------------------------------------------------------
(* Sample and the Sample Assembler *)

None == <<>>
Some(v) == <<v>>

\* Sample(text=..., quantile=..., ground_truth=...), predicted defaults to None
Sample(text, quantile, ground_truth) ==
    [text |-> text, quantile |-> quantile, ground_truth |-> ground_truth,
     predicted |-> None]

\* Sample._prepare_samples
PrepareSamples(examples, quantile, ground_truth) ==
    [k \in 1..Len(examples) |->
        Sample(Decode(examples[k].tokens), quantile, ground_truth)]

\* mutant: the group's own index as its quantile
GroupQuantileZeroBased(i) == i

\* the quantile given to activating group i (0-indexed)
GroupQuantile(i) == i + 1

\* the loop of _prepare over enumerate(activating_examples), from index i on
RECURSIVE ExtendGroups(_, _, _)
ExtendGroups(acc, activating_examples, i) ==
    IF i >= Len(activating_examples) THEN acc
    ELSE ExtendGroups(
            acc \o PrepareSamples(activating_examples[i + 1], GroupQuantile(i), TRUE),
            activating_examples, i + 1)

\* mutant: the activating samples placed before the non-activating ones
AssembleActivatingFirst(activating_examples, incorrect_examples) ==
    ExtendGroups(<<>>, activating_examples, 0)
        \o PrepareSamples(incorrect_examples, -1, FALSE)

\* the flat list _prepare builds before chunking
Assemble(activating_examples, incorrect_examples) ==
    ExtendGroups(PrepareSamples(incorrect_examples, -1, FALSE),
                 activating_examples, 0)

\* mutant: only the full chunks, the trailing remainder lost
ChunksFullOnly(lst, size) ==
    LET starts == PyRange(0, Len(lst) - size + 1, size)
    IN  [k \in 1..Len(starts) |-> PySlice(lst, starts[k], starts[k] + size)]

\* mutant: an empty list still yields one (empty) chunk
ChunksAtLeastOne(lst, size) ==
    LET starts == IF lst = <<>> THEN <<0>> ELSE PyRange(0, Len(lst), size)
    IN  [k \in 1..Len(starts) |-> PySlice(lst, starts[k], starts[k] + size)]

\* [lst[i:i + size] for i in range(0, len(lst), size)]
Chunks(lst, size) ==
    LET starts == PyRange(0, Len(lst), size)
    IN  [k \in 1..Len(starts) |-> PySlice(lst, starts[k], starts[k] + size)]

\* references to the objects of a list of n samples, in list order
Refs(n) == [k \in 1..n |-> k]

-----------------------------------------------------------------------------
(* scripts/score.py: the state of the record loop *)

\* how the try block ends for a record: both calls return, load_explanation
\* raises, or sample_top_and_quantiles raises
RecordOutcomes == {"ok", "load_fails", "sample_fails"}

\* a name of the script that no statement has assigned yet
Unbound == 0

\* the script before its loop; a value is named by the record it was made for
ScriptStart(recs) ==
    /\ records = recs
    /\ script_pc = "loop"
    /\ cursor = 1
    /\ globals = [explanation |-> Unbound, test |-> Unbound, extra |-> Unbound]
    /\ scorer_inputs = <<>>
    /\ record_extra = [r \in 1..Len(recs) |-> Unbound]
    /\ logged = <<>>

-----------------------------------------------------------------------------
(* Initial states *)

NoOutcome == [batch |-> 0, kind |-> "none", fields |-> <<>>, text |-> <<>>]

InitPrepare ==
    /\ random_examples \in SeqsUpTo(ExamplePool, MaxRandom)
    /\ test_examples \in SeqsUpTo(SeqsUpTo(ExamplePool, MaxGroupLen), MaxGroups)
    /\ explanation \in Explanations
    /\ batch_size \in 1..MaxBatchSize
    /\ samples = <<>>
    /\ batches = <<>>
    /\ pc = "new"
    /\ tasks = <<>>
    /\ requests = <<>>
    /\ done_order = <<>>
    /\ last = NoOutcome
    /\ gather_exc = ""
    /\ raised = ""
    /\ returned = <<>>
    /\ callbacks = <<>>
    /\ fail_order = <<>>
    /\ gather_from = 0
    /\ ScriptStart(<<>>)

\* a scoring call that is followed through dispatch: the examples of each pool
\* are alike, and the call makes at most MaxBatches batches of MaxTotal samples
Init ==
    /\ InitPrepare
    /\ \A k \in 1..Len(random_examples) : random_examples[k] \in DispatchRandomPool
    /\ \A i \in 1..Len(test_examples) : \A k \in 1..Len(test_examples[i]) :
            test_examples[i][k] \in DispatchActivatingPool
    /\ Len(random_examples) + SumLens(test_examples) <= MaxTotal
    /\ Len(PyRange(0, Len(random_examples) + SumLens(test_examples), batch_size))
           <= MaxBatches

\* a scoring call with at most one activating group whose samples make exactly
\* two batches with a batch size of two or more, so that the second batch
\* starts at a position other than 0
InitBatched ==
    /\ InitPrepare
    /\ Len(test_examples) <= 1
    /\ \A k \in 1..Len(random_examples) : random_examples[k] \in DispatchRandomPool
    /\ \A i \in 1..Len(test_examples) : \A k \in 1..Len(test_examples[i]) :
            test_examples[i][k] \in DispatchActivatingPool
    /\ batch_size >= 2
    /\ LET total == Len(random_examples) + SumLens(test_examples)
       IN  /\ total <= MaxBatchedTotal
           /\ total > batch_size
           /\ total <= 2 * batch_size

-----------------------------------------------------------------------------
(* __call__, first statement: samples = self._prepare(...) *)

CallPrepare ==
    /\ pc = "new"
    /\ samples' = Assemble(test_examples, random_examples)
    /\ batches' = Chunks(Refs(Len(samples')), batch_size)
    /\ pc' = "prepared"
    /\ UNCHANGED <<scriptVars, callbacks, fail_order, gather_from,
                   random_examples, test_examples, explanation, batch_size,
                   tasks, requests, done_order, last, gather_exc, raised,
                   returned>>

NextPrepare == CallPrepare

SpecPrepare == InitPrepare /\ [][NextPrepare]_vars

-----------------------------------------------------------------------------
(* Properties of the Sample Assembler, checked under SpecPrepare *)

\* position in the flat list just before the first sample of group i (1-based)
GroupOffset(i) == Len(random_examples) + SumLens(SubSeq(test_examples, 1, i - 1))

\* C2: the flat list _prepare builds holds one sample per random example in
\* input order, then one per example of each activating group in group order
\* and input order: its length is len(R) + sum(len(G_i)) and the sample at each
\* position carries the decoded text of the input example of that position.
AssemblyOrder ==
    pc # "new" =>
        /\ Len(samples) = Len(random_examples) + SumLens(test_examples)
        /\ \A k \in 1..Len(random_examples) :
              samples[k].text = Decode(random_examples[k].tokens)
        /\ \A i \in 1..Len(test_examples) : \A j \in 1..Len(test_examples[i]) :
              samples[GroupOffset(i) + j].text = Decode(test_examples[i][j].tokens)

AssemblyOrderWitness ==
    /\ pc = "prepared"
    /\ Len(random_examples) = 2
    /\ Len(test_examples) = 2
    /\ Len(test_examples[1]) = 2
    /\ Len(test_examples[2]) = 1
    /\ random_examples[1] # random_examples[2]
    /\ test_examples[1][1] # random_examples[2]
    /\ Len(samples) = 5

\* C3: samples made from random_examples have quantile -1 and ground_truth
\* false, samples made from activating group i (0-indexed) have quantile i+1
\* and ground_truth true; so ground_truth holds exactly when quantile >= 1.
LabelCorrectness ==
    pc # "new" =>
        /\ \A k \in 1..Len(random_examples) :
              samples[k].quantile = -1 /\ samples[k].ground_truth = FALSE
        /\ \A i \in 1..Len(test_examples) : \A j \in 1..Len(test_examples[i]) :
              /\ samples[GroupOffset(i) + j].quantile = (i - 1) + 1
              /\ samples[GroupOffset(i) + j].ground_truth = TRUE
        /\ \A k \in 1..Len(samples) :
              samples[k].ground_truth <=> samples[k].quantile >= 1

LabelCorrectnessWitness ==
    /\ pc = "prepared"
    /\ Len(random_examples) >= 1
    /\ Len(test_examples) = 2
    /\ Len(test_examples[1]) >= 1
    /\ Len(test_examples[2]) >= 1
    /\ samples[Len(samples)].quantile = 2
    /\ samples[1].quantile = -1

\* C4: for batch_size >= 1 the batches are an order-preserving partition of the
\* flat list: concatenated they are the list, every batch but the last has
\* batch_size samples, and the last has between 1 and batch_size.
BatchCoverage ==
    (pc # "new" /\ batch_size >= 1) =>
        /\ Flatten(batches) = Refs(Len(samples))
        /\ \A b \in 1..(Len(batches) - 1) : Len(batches[b]) = batch_size
        /\ Len(batches) > 0 =>
              /\ Len(batches[Len(batches)]) >= 1
              /\ Len(batches[Len(batches)]) <= batch_size

BatchCoverageWitness ==
    /\ pc = "prepared"
    /\ batch_size = 2
    /\ Len(samples) = 5
    /\ Len(batches) = 3
    /\ Len(batches[3]) = 1

-----------------------------------------------------------------------------
(* Prompt Builder and Response Schema Provider *)

\* mutant: the examples numbered from 1, as with enumerate(batch, 1)
ExampleLineOneBased(i, text) == "Example " \o ToString(i + 1) \o ": " \o text

\* f"Example {i}: {sample.text}"
ExampleLine(i, text) == "Example " \o ToString(i) \o ": " \o text

\* "\n".join(lines)
RECURSIVE JoinLines(_)
JoinLines(lines) ==
    IF lines = <<>> THEN ""
    ELSE IF Len(lines) = 1 THEN lines[1]
    ELSE lines[1] \o "\n" \o JoinLines(Tail(lines))

\* mutant: the lines numbered by the samples' positions in the whole list, as
\* with a counter kept across the batches
ExampleLinesGlobal(batch) ==
    [k \in 1..Len(batch) |-> ExampleLine(batch[k] - 1, samples[batch[k]].text)]

\* the lines build_prompt renders for a batch: enumerate(batch) is 0-based
ExampleLines(batch) ==
    [k \in 1..Len(batch) |-> ExampleLine(k - 1, samples[batch[k]].text)]

\* clean_prompt(explanation=..., examples=..., batched=...)
CleanPrompt(expl, examples, batched) ==
    [explanation |-> expl, examples |-> examples, batched |-> batched]

\* RecallScorer.build_prompt
BuildPrompt(batch, expl, batched) ==
    CleanPrompt(expl, JoinLines(ExampleLines(batch)), batched)

\* f"example_{i}"
ExampleKey(i) == "example_" \o ToString(i)

\* create_response_model(n).model_json_schema(): the fields of the schema
ResponseSchema(n) == {ExampleKey(i) : i \in 0..(n - 1)}

\* mutant: every non-empty batch taken as batched
BatchedAtLeastOne(batch) == Len(batch) >= 1

\* batched = len(batch) > 1
Batched(batch) == Len(batch) > 1

\* the arguments of the client.generate call query makes for a batch
Request(b) ==
    LET batch == batches[b]
    IN  [batch |-> b,
         prompt |-> BuildPrompt(batch, explanation, Batched(batch)),
         schema |-> IF Batched(batch) THEN Some(ResponseSchema(Len(batch)))
                    ELSE None]

-----------------------------------------------------------------------------
(* What the backend may answer *)

JInt(lit) == [type |-> "int", lit |-> lit]
JStr(lit) == [type |-> "str", lit |-> lit]

\* values a field of a structured response may carry
IndicatorValues == {JInt("0"), JInt("1"), JStr("yes")}

\* characters of a free-text response
Chars == {"0", "1", "2", "x"}

JsonOutcomes(n) ==
    {[kind |-> "json", fields |-> f, text |-> <<>>] :
        f \in UNION {[S -> IndicatorValues] : S \in SUBSET ResponseSchema(n)}}

\* free-text responses: empty, a lone character, and two characters
FreeTexts ==
    {<<>>} \cup {<<c>> : c \in Chars}
        \cup {<<"x", "1">>, <<"0", "1">>, <<"1", "0">>, <<"1", "2">>, <<"1", "x">>}

TextOutcomes ==
    {[kind |-> "text", fields |-> <<>>, text |-> t] : t \in FreeTexts}

ErrorOutcome == [kind |-> "error", fields |-> <<>>, text |-> <<>>]

\* the outcomes of the awaited client.generate for a batch: a mapping when a
\* schema was sent, free text otherwise, or an exception of the client
Outcomes(batch) ==
    (IF Batched(batch) THEN JsonOutcomes(Len(batch)) ELSE TextOutcomes)
        \cup {ErrorOutcome}

-----------------------------------------------------------------------------
(* Parsing in query *)

\* Python's  value == 1  for a JSON value
PyEqualsOne(v) == v.type = "int" /\ v.lit = "1"

\* the decimal digits, each at the position of its value plus one
Digits == <<"0", "1", "2", "3", "4", "5", "6", "7", "8", "9">>

\* Python's int(c) for a one-character ASCII string: <<n>> for a decimal
\* digit, or <<>> for ValueError
PyInt(c) ==
    IF \E d \in 1..Len(Digits) : Digits[d] = c
    THEN <<(CHOOSE d \in 1..Len(Digits) : Digits[d] = c) - 1>>
    ELSE <<>>

\* mutant: the fields read from example_1 on, as with enumerate(batch, 1)
RECURSIVE ParseSelectionsOneBased(_, _, _, _)
ParseSelectionsOneBased(batch, selections, i, smp) ==
    IF i >= Len(batch) THEN [samples |-> smp, exc |-> ""]
    ELSE IF ExampleKey(i + 1) \notin DOMAIN selections
         THEN [samples |-> smp, exc |-> "KeyError"]
    ELSE ParseSelectionsOneBased(batch, selections, i + 1,
            [smp EXCEPT ![batch[i + 1]].predicted =
                            Some(PyEqualsOne(selections[ExampleKey(i + 1)]))])

\* mutant: a missing field read as 0, as with selections.get(key, 0)
RECURSIVE ParseSelectionsDefault(_, _, _, _)
ParseSelectionsDefault(batch, selections, i, smp) ==
    IF i >= Len(batch) THEN [samples |-> smp, exc |-> ""]
    ELSE ParseSelectionsDefault(batch, selections, i + 1,
            [smp EXCEPT ![batch[i + 1]].predicted =
                Some(IF ExampleKey(i) \in DOMAIN selections
                     THEN PyEqualsOne(selections[ExampleKey(i)]) ELSE FALSE)])

\* for i, sample in enumerate(batch):
\*     sample.predicted = selections[f"example_{i}"] == 1
\* from index i on; smp is the state of the Sample objects so far
RECURSIVE ParseSelections(_, _, _, _)
ParseSelections(batch, selections, i, smp) ==
    IF i >= Len(batch) THEN [samples |-> smp, exc |-> ""]
    ELSE IF ExampleKey(i) \notin DOMAIN selections
         THEN [samples |-> smp, exc |-> "KeyError"]
    ELSE ParseSelections(batch, selections, i + 1,
            [smp EXCEPT ![batch[i + 1]].predicted =
                            Some(PyEqualsOne(selections[ExampleKey(i)]))])

\* mutant: a response without a trailing digit leaves predicted unset, as with
\* the parse wrapped in try/except
ParseTextLenient(batch, text, smp) ==
    IF Len(text) = 0 \/ Len(batch) = 0 THEN [samples |-> smp, exc |-> ""]
    ELSE IF PyInt(text[Len(text)]) = <<>> THEN [samples |-> smp, exc |-> ""]
    ELSE [samples |-> [smp EXCEPT ![batch[1]].predicted =
                                    Some(PyInt(text[Len(text)])[1] = 1)],
          exc |-> ""]

\* mutant: the first character read, as with selections[0]
ParseTextFirstChar(batch, text, smp) ==
    IF Len(text) = 0 THEN [samples |-> smp, exc |-> "IndexError"]
    ELSE IF PyInt(text[1]) = <<>> THEN [samples |-> smp, exc |-> "ValueError"]
    ELSE IF Len(batch) = 0 THEN [samples |-> smp, exc |-> "IndexError"]
    ELSE [samples |-> [smp EXCEPT ![batch[1]].predicted =
                                    Some(PyInt(text[1])[1] = 1)],
          exc |-> ""]

\* mutant: the first sample of the whole list written, as with samples[0]
ParseTextGlobalFirst(batch, text, smp) ==
    IF Len(text) = 0 THEN [samples |-> smp, exc |-> "IndexError"]
    ELSE IF PyInt(text[Len(text)]) = <<>>
         THEN [samples |-> smp, exc |-> "ValueError"]
    ELSE IF Len(smp) = 0 THEN [samples |-> smp, exc |-> "IndexError"]
    ELSE [samples |-> [smp EXCEPT ![1].predicted =
                                    Some(PyInt(text[Len(text)])[1] = 1)],
          exc |-> ""]

\* mutant: the judgment also stored over the sample's ground_truth
ParseTextOverwritesTruth(batch, text, smp) ==
    IF Len(text) = 0 THEN [samples |-> smp, exc |-> "IndexError"]
    ELSE IF PyInt(text[Len(text)]) = <<>>
         THEN [samples |-> smp, exc |-> "ValueError"]
    ELSE IF Len(batch) = 0 THEN [samples |-> smp, exc |-> "IndexError"]
    ELSE [samples |-> [smp EXCEPT
                          ![batch[1]].predicted = Some(PyInt(text[Len(text)])[1] = 1),
                          ![batch[1]].ground_truth = (PyInt(text[Len(text)])[1] = 1)],
          exc |-> ""]

\* batch[0].predicted = int(selections[-1]) == 1
ParseText(batch, text, smp) ==
    IF Len(text) = 0 THEN [samples |-> smp, exc |-> "IndexError"]
    ELSE IF PyInt(text[Len(text)]) = <<>>
         THEN [samples |-> smp, exc |-> "ValueError"]
    ELSE IF Len(batch) = 0 THEN [samples |-> smp, exc |-> "IndexError"]
    ELSE [samples |-> [smp EXCEPT ![batch[1]].predicted =
                                    Some(PyInt(text[Len(text)])[1] = 1)],
          exc |-> ""]

\* query from the point where the awaited client.generate delivers outcome o
QueryParse(batch, o, smp) ==
    IF o.kind = "error" THEN [samples |-> smp, exc |-> "BackendError"]
    ELSE IF Batched(batch) THEN ParseSelections(batch, o.fields, 0, smp)
    ELSE ParseText(batch, o.text, smp)

-----------------------------------------------------------------------------
(* process_batches: one query task per batch under asyncio.gather *)

NewTask == [pc |-> "created", exc |-> "", ret |-> <<>>]

\* tasks = [self.query(batch, explanation) for batch in batches]; await gather
ProcessBatches ==
    /\ pc = "prepared"
    /\ tasks' = [b \in 1..Len(batches) |-> NewTask]
    /\ pc' = "gather"
    /\ UNCHANGED <<scriptVars, callbacks, fail_order, gather_from,
                   random_examples, test_examples, explanation, batch_size,
                   samples, batches, requests, done_order, last, gather_exc,
                   raised, returned>>

\* the event loop runs the tasks' first steps in the order gather created them
NextToStart(b) ==
    /\ tasks[b].pc = "created"
    /\ \A c \in 1..(b - 1) : tasks[c].pc # "created"

\* query up to its await: the prompt is built and client.generate is called
QueryStart(b) ==
    /\ pc \in {"gather", "raised"}
    /\ NextToStart(b)
    /\ requests' = Append(requests, Request(b))
    /\ tasks' = [tasks EXCEPT ![b].pc = "awaiting"]
    /\ UNCHANGED <<scriptVars, callbacks, fail_order, gather_from,
                   random_examples, test_examples, explanation, batch_size,
                   samples, batches, pc, done_order, last, gather_exc, raised,
                   returned>>

\* mutant: a request that failed or whose response cannot be parsed is issued
\* once more and the task awaits again, as with a retry loop around the await
QueryResumeRetry(b, o) ==
    /\ pc \in {"gather", "raised"}
    /\ tasks[b].pc = "awaiting"
    /\ LET r == QueryParse(batches[b], o, samples)
       IN  IF r.exc # "" /\ Len(requests) < 2 * Len(batches)
           THEN /\ requests' = Append(requests, Request(b))
                /\ UNCHANGED <<samples, tasks, done_order, callbacks, fail_order>>
           ELSE /\ samples' = r.samples
                /\ callbacks' = Append(callbacks, b)
                /\ UNCHANGED requests
                /\ IF r.exc = ""
                   THEN /\ tasks' = [tasks EXCEPT ![b] =
                                   [pc |-> "done", exc |-> "", ret |-> batches[b]]]
                        /\ done_order' = Append(done_order, b)
                        /\ UNCHANGED fail_order
                   ELSE /\ tasks' = [tasks EXCEPT ![b] =
                                   [pc |-> "failed", exc |-> r.exc, ret |-> <<>>]]
                        /\ fail_order' = Append(fail_order, b)
                        /\ UNCHANGED done_order
    /\ last' = [batch |-> b, kind |-> o.kind, fields |-> o.fields, text |-> o.text]
    /\ UNCHANGED <<scriptVars, random_examples, test_examples, explanation, batch_size,
                   batches, pc, gather_exc, gather_from, raised, returned>>

\* query from its await to its end: the outcome o arrives, the response is
\* parsed into the batch's samples, and the task returns the batch or raises;
\* the ended task schedules gather's done callback, which runs in a later step
QueryResume(b, o) ==
    /\ pc \in {"gather", "raised"}
    /\ tasks[b].pc = "awaiting"
    /\ LET r == QueryParse(batches[b], o, samples)
       IN  /\ samples' = r.samples
           /\ IF r.exc = ""
              THEN /\ tasks' = [tasks EXCEPT ![b] =
                                   [pc |-> "done", exc |-> "", ret |-> batches[b]]]
                   /\ done_order' = Append(done_order, b)
                   /\ UNCHANGED fail_order
              ELSE /\ tasks' = [tasks EXCEPT ![b] =
                                   [pc |-> "failed", exc |-> r.exc, ret |-> <<>>]]
                   /\ fail_order' = Append(fail_order, b)
                   /\ UNCHANGED done_order
    /\ callbacks' = Append(callbacks, b)
    /\ last' = [batch |-> b, kind |-> o.kind, fields |-> o.fields, text |-> o.text]
    /\ UNCHANGED <<scriptVars, random_examples, test_examples, explanation, batch_size,
                   batches, pc, requests, gather_exc, gather_from, raised, returned>>

\* mutant: every task reported with an exception sets it on gather's future,
\* so that the await raises the exception of the last task that raised
DoneCallbackLastWins ==
    /\ pc \in {"gather", "raised"}
    /\ callbacks # <<>>
    /\ LET b == Head(callbacks)
       IN  IF tasks[b].pc = "failed"
           THEN gather_exc' = tasks[b].exc /\ gather_from' = b
           ELSE UNCHANGED <<gather_exc, gather_from>>
    /\ callbacks' = Tail(callbacks)
    /\ UNCHANGED <<scriptVars, fail_order, random_examples, test_examples, explanation,
                   batch_size, samples, batches, pc, tasks, requests, done_order,
                   last, raised, returned>>

\* gather's done callback for one ended task; the event loop runs the
\* callbacks in the order the tasks ended.  The first task reported with an
\* exception sets it on gather's future; once the future has an exception the
\* later reports change nothing
DoneCallback ==
    /\ pc \in {"gather", "raised"}
    /\ callbacks # <<>>
    /\ LET b == Head(callbacks)
       IN  IF gather_exc = "" /\ tasks[b].pc = "failed"
           THEN gather_exc' = tasks[b].exc /\ gather_from' = b
           ELSE UNCHANGED <<gather_exc, gather_from>>
    /\ callbacks' = Tail(callbacks)
    /\ UNCHANGED <<scriptVars, fail_order, random_examples, test_examples, explanation,
                   batch_size, samples, batches, pc, tasks, requests, done_order,
                   last, raised, returned>>

\* the number of tasks gather's done callback has run for
NFinished ==
    Cardinality({b \in 1..Len(tasks) : tasks[b].pc \in {"done", "failed"}})
        - Len(callbacks)

\* Sample.default
Default(s) ==
    [text |-> s.text, quantile |-> s.quantile, ground_truth |-> s.ground_truth,
     predicted |-> s.predicted]

\* mutant: the await ends with the first task that returns, as with
\* asyncio.wait(..., return_when=FIRST_COMPLETED)
GatherDoneAny == \E b \in 1..Len(tasks) : tasks[b].pc = "done"

\* mutant: the await ends once every task has ended, returned or raised, as
\* with asyncio.gather(..., return_exceptions=True)
GatherDoneSettled ==
    \A b \in 1..Len(tasks) : tasks[b].pc \in {"done", "failed"}

\* gather's future has its result once the done callback has run for every
\* task and none of them reported an exception
GatherDone == gather_exc = "" /\ NFinished = Len(tasks)

\* mutant: the return values in completion order, as with asyncio.as_completed
GatherResultsAsCompleted ==
    [k \in 1..Len(done_order) |-> tasks[done_order[k]].ret]

\* the list gather delivers: the tasks' return values, in the tasks' order
GatherResults == [b \in 1..Len(tasks) |-> tasks[b].ret]

\* [item.default() for sublist in results for item in sublist]
FlattenResults(results) ==
    LET refs == Flatten(results)
    IN  [k \in 1..Len(refs) |-> Default(samples[refs[k]])]

\* results = await asyncio.gather(*tasks) delivers; __call__ returns
GatherReturn ==
    /\ pc = "gather"
    /\ GatherDone
    /\ returned' = FlattenResults(GatherResults)
    /\ pc' = "returned"
    /\ UNCHANGED <<scriptVars, callbacks, fail_order, gather_from,
                   random_examples, test_examples, explanation, batch_size,
                   samples, batches, tasks, requests, done_order, last,
                   gather_exc, raised>>

\* mutant: the exception is caught and the batches that returned are kept, as
\* with the await wrapped in try/except
GatherRaiseSkip ==
    /\ pc = "gather"
    /\ gather_exc # ""
    /\ returned' = FlattenResults(GatherResults)
    /\ pc' = "returned"
    /\ UNCHANGED <<scriptVars, callbacks, fail_order, gather_from,
                   random_examples, test_examples, explanation, batch_size,
                   samples, batches, tasks, requests, done_order, last,
                   gather_exc, raised>>

\* await asyncio.gather(*tasks) raises the first exception of a task; nothing
\* in process_batches or __call__ catches it
GatherRaise ==
    /\ pc = "gather"
    /\ gather_exc # ""
    /\ raised' = gather_exc
    /\ pc' = "raised"
    /\ UNCHANGED <<scriptVars, callbacks, fail_order, gather_from,
                   random_examples, test_examples, explanation, batch_size,
                   samples, batches, tasks, requests, done_order, last,
                   gather_exc, returned>>

Next ==
    \/ CallPrepare
    \/ ProcessBatches
    \/ \E b \in 1..Len(tasks) : QueryStart(b)
    \/ \E b \in 1..Len(tasks) : \E o \in Outcomes(batches[b]) : QueryResume(b, o)
    \/ DoneCallback
    \/ GatherReturn
    \/ GatherRaise

Spec == Init /\ [][Next]_vars

SpecBatched == InitBatched /\ [][Next]_vars

-----------------------------------------------------------------------------
(* Properties of dispatch and parsing, checked under Spec *)

\* the records of the samples in the order _prepare assembled them
AssembledRecords == [k \in 1..Len(samples) |-> Default(samples[k])]

\* the batch whose awaited client.generate delivered most recently
LastBatch == batches[last.batch]

\* the sample at 0-based position i of the batch of the latest outcome
LastSample(i) == samples[LastBatch[i + 1]]

\* C1: whatever the order in which the requests complete, the returned list
\* holds the samples batch by batch in batch order and within-batch order, which
\* is the order the Sample Assembler produced.
FlattenOrder ==
    pc = "returned" => returned = AssembledRecords

FlattenOrderWitness ==
    /\ pc = "returned"
    /\ Len(batches) = 2
    /\ Len(batches[1]) = 2
    /\ done_order = <<2, 1>>
    /\ returned[1].quantile # returned[2].quantile
    /\ Len(returned) = 3

\* C5: the call returns only after every batch's request has completed: once it
\* has returned no task is still to start or awaiting its response, and records
\* exist only once it has returned.
ReturnAfterAllComplete ==
    /\ pc = "returned" =>
          /\ Len(tasks) = Len(batches)
          /\ \A b \in 1..Len(tasks) : tasks[b].pc \notin {"created", "awaiting"}
    /\ returned # <<>> => pc = "returned"

ReturnAfterAllCompleteWitness ==
    /\ pc = "returned"
    /\ Len(tasks) = 2
    /\ done_order = <<2, 1>>
    /\ Len(returned) = 2

\* C6: when the call returns normally every returned record has predicted set
\* to a boolean, never unset.
PredictedPopulated ==
    pc = "returned" =>
        \A k \in 1..Len(returned) : returned[k].predicted \in {Some(TRUE), Some(FALSE)}

PredictedPopulatedWitness ==
    /\ pc = "returned"
    /\ Len(batches) = 2
    /\ Len(returned) = 3
    /\ returned[1].predicted = Some(FALSE)
    /\ returned[3].predicted = Some(TRUE)

\* a structured response that maps every expected field to 0 or 1
WellFormedFields(fields, n) ==
    /\ DOMAIN fields = ResponseSchema(n)
    /\ \A key \in ResponseSchema(n) : fields[key] \in {JInt("0"), JInt("1")}

\* C7: for a batch of n > 1 samples whose response maps every example_0 ..
\* example_{n-1} to 0 or 1, query returns and the sample at each position i has
\* predicted true exactly when example_i is 1.
StructuredParse ==
    (/\ last.kind = "json"
     /\ Len(LastBatch) > 1
     /\ WellFormedFields(last.fields, Len(LastBatch))) =>
        /\ tasks[last.batch].pc = "done"
        /\ \A i \in 0..(Len(LastBatch) - 1) :
              LastSample(i).predicted = Some(last.fields[ExampleKey(i)] = JInt("1"))

\* Scenario B: {example_0: 0, example_1: 1, example_2: 1} gives false, true, true
StructuredParseWitness ==
    /\ last.kind = "json"
    /\ Len(LastBatch) = 3
    /\ last.fields = ("example_0" :> JInt("0") @@ "example_1" :> JInt("1")
                        @@ "example_2" :> JInt("1"))
    /\ LastSample(0).predicted = Some(FALSE)
    /\ LastSample(1).predicted = Some(TRUE)
    /\ LastSample(2).predicted = Some(TRUE)

\* C8: for a batch of one sample whose free-text response ends in "0" or "1",
\* query returns and the sample's predicted is true exactly when the final
\* character is "1", whatever precedes it.
FreeTextParse ==
    (/\ last.kind = "text"
     /\ Len(LastBatch) = 1
     /\ Len(last.text) >= 1
     /\ last.text[Len(last.text)] \in {"0", "1"}) =>
        /\ tasks[last.batch].pc = "done"
        /\ LastSample(0).predicted = Some(last.text[Len(last.text)] = "1")

FreeTextParseWitness ==
    /\ last.kind = "text"
    /\ batch_size = 1
    /\ Len(LastBatch) = 1
    /\ last.text = <<"x", "1">>
    /\ LastSample(0).ground_truth
    /\ LastSample(0).predicted = Some(TRUE)

\* C9: for a batch of n > 1 samples whose response omits example_j for some
\* position j < n, the batch's task raises and the sample at position j keeps
\* predicted unset.
MissingFieldRaises ==
    (last.kind = "json" /\ Len(LastBatch) > 1) =>
        \A j \in 0..(Len(LastBatch) - 1) :
            ExampleKey(j) \notin DOMAIN last.fields =>
                /\ tasks[last.batch].pc = "failed"
                /\ tasks[last.batch].exc = "KeyError"
                /\ LastSample(j).predicted = None

\* Scenario C: the response omits example_1
MissingFieldRaisesWitness ==
    /\ last.kind = "json"
    /\ Len(LastBatch) = 3
    /\ DOMAIN last.fields = {"example_0", "example_2"}
    /\ tasks[last.batch].pc = "failed"
    /\ LastSample(0).predicted # None
    /\ LastSample(1).predicted = None

\* C10: for a batch of n > 1 samples whose response holds every expected field
\* but gives some example_i a value that is not a number, the batch's task
\* raises instead of giving that sample a fixed predicted value.
NonNumericRaises ==
    (/\ last.kind = "json"
     /\ Len(LastBatch) > 1
     /\ DOMAIN last.fields = ResponseSchema(Len(LastBatch))
     /\ \E key \in DOMAIN last.fields : last.fields[key].type # "int") =>
        tasks[last.batch].pc = "failed"

\* C11: for a batch of one sample whose free-text response is empty or does not
\* end in "0" or "1", the batch's task raises instead of giving the sample a
\* fixed predicted value.
UnparsableTextRaises ==
    (/\ last.kind = "text"
     /\ Len(LastBatch) = 1
     /\ \/ Len(last.text) = 0
        \/ last.text[Len(last.text)] \notin {"0", "1"}) =>
        /\ tasks[last.batch].pc = "failed"
        /\ LastSample(0).predicted = None

\* the errors of the tasks that have raised
FailedErrors == {tasks[b].exc : b \in {c \in 1..Len(tasks) : tasks[c].pc = "failed"}}

\* the call is about to raise: gather's future has an exception for the await
\* to raise, or the done callback is still to run for a task that raised
RaisePending ==
    \/ ENABLED GatherRaise
    \/ \E k \in 1..Len(callbacks) : tasks[callbacks[k]].pc = "failed"

\* C12 as claimed: once the backend request of a batch has failed, the call
\* does not return, returns no records, and the error it raises is that
\* backend error.
BackendErrorPropagated ==
    "BackendError" \in FailedErrors =>
        /\ pc # "returned"
        /\ returned = <<>>
        /\ pc = "raised" => raised = "BackendError"

\* once a task has raised, the call fails with the error of the task that
\* raised first: it does not return and returns no records, the raise is
\* pending until the await raises, and what the await raises is the exception
\* of the first task in the order of raising, whatever the later tasks raise
FailsWithFirstError ==
    /\ pc \in {"gather", "raised"}
    /\ returned = <<>>
    /\ pc = "gather" => RaisePending /\ ~ENABLED GatherReturn
    /\ gather_from # 0 => gather_from = Head(fail_order)
    /\ pc = "raised" =>
          /\ gather_from = Head(fail_order)
          /\ raised = tasks[Head(fail_order)].exc

\* C12 as amended: once the backend request of a batch has failed, the call
\* does not return and returns no records; the error it raises is that of the
\* first batch whose task raised, so it is this backend error exactly when no
\* other task raised before it.
BackendFailureFailsCall ==
    \A b \in 1..Len(tasks) :
        (tasks[b].pc = "failed" /\ tasks[b].exc = "BackendError") =>
            /\ FailsWithFirstError
            /\ pc = "raised" => (gather_from = b <=> Head(fail_order) = b)

\* the second batch's backend request fails first and the first batch's
\* response then lacks a field: the call raises the backend error of batch 2
BackendFailureFailsCallWitness ==
    /\ pc = "raised"
    /\ Len(tasks) = 2
    /\ fail_order = <<2, 1>>
    /\ tasks[2].exc = "BackendError"
    /\ tasks[1].exc = "KeyError"
    /\ raised = "BackendError"
    /\ gather_from = 2
    /\ returned = <<>>

\* the errors query raises on a malformed response
MalformedErrors == {"KeyError", "IndexError", "ValueError"}

\* C13 as claimed: a malformed response for one batch does not crash the
\* scoring call: the call never raises a parsing error.
MalformedDoesNotCrash ==
    pc = "raised" => raised \notin MalformedErrors

\* the latest response is malformed and cannot be parsed: a structured
\* response that lacks a field, empty free text, or free text whose last
\* character is not a digit
LastUnparsable ==
    \/ /\ last.kind = "json"
       /\ ResponseSchema(Len(LastBatch)) \ DOMAIN last.fields # {}
    \/ /\ last.kind = "text"
       /\ IF Len(last.text) = 0 THEN TRUE
          ELSE PyInt(last.text[Len(last.text)]) = <<>>

\* position i of the latest response is malformed and yet parsed: a field that
\* is present but not an integer, or free text ending in a digit other than 0
\* and 1
LastMisread(i) ==
    \/ /\ last.kind = "json"
       /\ ExampleKey(i) \in DOMAIN last.fields
       /\ last.fields[ExampleKey(i)].type # "int"
    \/ /\ last.kind = "text"
       /\ i = 0
       /\ Len(last.text) > 0
       /\ PyInt(last.text[Len(last.text)]) # <<>>
       /\ last.text[Len(last.text)] \notin {"0", "1"}

\* C13 as amended: a malformed response is never surfaced as a per-batch
\* failure.  One that cannot be parsed makes the batch's task raise a parsing
\* error, and the call then fails as a whole with the error of the first task
\* that raised and returns no records.  One that the parse accepts raises
\* nothing: while the parse gets as far as its position it is scored false, as
\* a negative judgment is, and is returned as such when the call returns.
MalformedFailsCall ==
    /\ (last.kind \in {"json", "text"} /\ LastUnparsable) =>
          /\ tasks[last.batch].pc = "failed"
          /\ tasks[last.batch].exc \in MalformedErrors
    /\ last.kind \in {"json", "text"} =>
          \A i \in 0..(Len(LastBatch) - 1) :
              LastMisread(i) =>
                  /\ ~LastUnparsable => tasks[last.batch].pc = "done"
                  /\ LastSample(i).predicted \in {None, Some(FALSE)}
                  /\ tasks[last.batch].pc = "done" =>
                        LastSample(i).predicted = Some(FALSE)
                  /\ pc = "returned" =>
                        returned[LastBatch[i + 1]].predicted = Some(FALSE)
    /\ FailedErrors \cap MalformedErrors # {} => FailsWithFirstError

\* the first batch's response omits a field and the call raises KeyError; the
\* second batch's response "2" is then scored false without an error, and its
\* result is never returned
MalformedFailsCallWitness ==
    /\ pc = "raised"
    /\ raised = "KeyError"
    /\ Len(tasks) = 2
    /\ fail_order = <<1>>
    /\ tasks[1].exc = "KeyError"
    /\ tasks[2].pc = "done"
    /\ last.batch = 2
    /\ last.text = <<"2">>
    /\ LastSample(0).predicted = Some(FALSE)
    /\ returned = <<>>

\* C14: with no random examples and no activating examples the call makes no
\* batch and no backend request, does not raise, and returns the empty list.
EmptyInputNoRequests ==
    Len(random_examples) + SumLens(test_examples) = 0 =>
        /\ requests = <<>>
        /\ pc # "new" => batches = <<>>
        /\ pc # "raised"
        /\ returned = <<>>
        /\ pc = "gather" => ENABLED GatherReturn

EmptyInputNoRequestsWitness ==
    /\ random_examples = <<>>
    /\ test_examples = <<>>
    /\ pc = "returned"
    /\ returned = <<>>
    /\ requests = <<>>

\* the references a batch holds
BatchRefs(b) == {batches[b][k] : k \in 1..Len(batches[b])}

\* C15: in every interleaving of the tasks, a sample's predicted changes only
\* from unset, only in the step in which the task of the batch that holds the
\* sample resumes with its own backend response, and never again afterwards.
PredictedWrittenOnce ==
    [][\A k \in 1..Len(samples) :
          samples'[k].predicted # samples[k].predicted =>
              /\ samples[k].predicted = None
              /\ \E b \in 1..Len(batches) :
                    /\ k \in BatchRefs(b)
                    /\ tasks[b].pc = "awaiting"
                    /\ tasks'[b].pc \in {"done", "failed"}
                    /\ last'.batch = b
                    /\ last'.kind \in {"json", "text"}]_vars

\* both batches scored, the second before the first
PredictedWrittenOnceWitness ==
    /\ Len(batches) = 2
    /\ done_order = <<2, 1>>
    /\ Len(samples) = 3
    /\ \A k \in 1..Len(samples) : samples[k].predicted # None

\* the positions in the request log of the requests made for batch b
RequestsFor(b) == {i \in 1..Len(requests) : requests[i].batch = b}

\* C16: one backend request is issued per batch and never more: a batch has no
\* request before its task starts and exactly one from then on, also after the
\* request failed or its response could not be parsed; when the call returns
\* the number of requests is the number of batches.
OneRequestPerBatch ==
    /\ \A i \in 1..Len(requests) : requests[i].batch \in 1..Len(batches)
    /\ \A b \in 1..Len(tasks) :
          Cardinality(RequestsFor(b)) = IF tasks[b].pc = "created" THEN 0 ELSE 1
    /\ pc \in {"new", "prepared"} => requests = <<>>
    /\ pc = "returned" => Len(requests) = Len(batches)

\* one batch failed at the backend, the other could not be parsed
OneRequestPerBatchWitness ==
    /\ Len(batches) = 2
    /\ Len(requests) = 2
    /\ tasks[1].exc = "BackendError"
    /\ tasks[2].exc = "ValueError"
    /\ pc = "raised"

\* C17: query is batched exactly when the batch has more than one sample: the
\* request carries a schema and the batched prompt wording iff len(batch) > 1,
\* and the response is read as a mapping (KeyError on a missing field) iff
\* len(batch) > 1 and as free text (IndexError, ValueError) otherwise.
BatchedIffMany ==
    /\ \A i \in 1..Len(requests) :
          LET n == Len(batches[requests[i].batch])
          IN  /\ requests[i].schema # None <=> n > 1
              /\ requests[i].prompt.batched <=> n > 1
    /\ \A b \in 1..Len(tasks) :
          /\ tasks[b].exc = "KeyError" => Len(batches[b]) > 1
          /\ tasks[b].exc \in {"IndexError", "ValueError"} => Len(batches[b]) = 1
    /\ last.kind = "json" => Len(LastBatch) > 1
    /\ last.kind = "text" => Len(LastBatch) = 1

\* batch_size 2 and three samples: a batch of two with a schema, then a
\* trailing remainder of one without
BatchedIffManyWitness ==
    /\ batch_size = 2
    /\ Len(requests) = 2
    /\ Len(batches[1]) = 2
    /\ Len(batches[2]) = 1
    /\ requests[1].schema # None
    /\ requests[2].schema = None
    /\ tasks[1].pc = "done"
    /\ tasks[2].pc = "done"

\* C18: within a batch the prompt line of the sample at position i reads
\* "Example i: <text>" and the response field that sets that sample's predicted
\* is example_i, with i running over 0..n-1 by position within the batch (never
\* an index across batches); the schema names exactly those fields.  Checked
\* under SpecBatched, where the second batch holds samples whose positions in
\* the whole list differ from their positions in the batch.
IndexAlignment ==
    /\ \A r \in 1..Len(requests) :
          LET batch == batches[requests[r].batch]
              n == Len(batch)
          IN  /\ requests[r].prompt.examples =
                    JoinLines([k \in 1..n |->
                        "Example " \o ToString(k - 1) \o ": " \o samples[batch[k]].text])
              /\ n >= 2 =>
                    requests[r].schema =
                        Some({"example_" \o ToString(k - 1) : k \in 1..n})
    /\ (last.kind = "json" /\ tasks[last.batch].pc = "done") =>
          \A k \in 1..Len(LastBatch) :
              /\ ("example_" \o ToString(k - 1)) \in DOMAIN last.fields
              /\ samples[LastBatch[k]].predicted =
                    Some(last.fields["example_" \o ToString(k - 1)] = JInt("1"))

\* the second of two batches of two: its samples are the third and fourth of
\* the list, its prompt numbers them 0 and 1, and example_0 and example_1 set
\* their predicted
IndexAlignmentWitness ==
    /\ Len(batches) = 2
    /\ batches[2] = <<3, 4>>
    /\ last.kind = "json"
    /\ last.batch = 2
    /\ tasks[2].pc = "done"
    /\ \E r \in 1..Len(requests) :
          /\ requests[r].batch = 2
          /\ requests[r].prompt.examples = "Example 0: ba\nExample 1: ba"
          /\ requests[r].schema = Some({"example_0", "example_1"})
    /\ last.fields = ("example_0" :> JInt("0") @@ "example_1" :> JInt("1"))
    /\ samples[3].predicted = Some(FALSE)
    /\ samples[4].predicted = Some(TRUE)

\* C19: dispatch and parsing leave text, quantile and ground_truth of every
\* sample as assembly set them, and each returned record carries the text,
\* quantile and ground_truth its sample was given at assembly.
FrameUnchanged ==
    pc # "new" =>
        LET assembled == Assemble(test_examples, random_examples)
        IN  /\ Len(samples) = Len(assembled)
            /\ \A k \in 1..Len(samples) :
                  /\ samples[k].text = assembled[k].text
                  /\ samples[k].quantile = assembled[k].quantile
                  /\ samples[k].ground_truth = assembled[k].ground_truth
            /\ pc = "returned" =>
                  /\ Len(returned) = Len(assembled)
                  /\ \A k \in 1..Len(returned) :
                        /\ DOMAIN returned[k] =
                              {"text", "quantile", "ground_truth", "predicted"}
                        /\ returned[k].text = assembled[k].text
                        /\ returned[k].quantile = assembled[k].quantile
                        /\ returned[k].ground_truth = assembled[k].ground_truth

\* a returned record whose judgment disagrees with its ground truth
FrameUnchangedWitness ==
    /\ pc = "returned"
    /\ Len(returned) = 3
    /\ returned[1].ground_truth = FALSE
    /\ returned[1].predicted = Some(TRUE)
    /\ returned[3].ground_truth = TRUE
    /\ returned[3].predicted = Some(FALSE)

-----------------------------------------------------------------------------
(* scripts/score.py: the loop over the feature records.  The records of the  *)
(* successive layers are taken as one sequence: explanation, test and extra  *)
(* are module-level names and keep their values from one layer to the next.  *)

\* the try block for record r: explanation = load_explanation(...), then
\* _, test, extra = sample_top_and_quantiles(...); a call that raises leaves
\* the names after it as they were
TryBlock(r, g) ==
    CASE records[r] = "ok" -> [explanation |-> r, test |-> r, extra |-> r]
      [] records[r] = "load_fails" -> g
      [] records[r] = "sample_fails" -> [g EXCEPT !.explanation = r]

\* except Exception as e: logger.error(...)
ExceptLogs(r) == records[r] # "ok"

\* ScorerInput(record=record, test_examples=test, explanation=explanation)
ScorerInput(r, g) == [record |-> r, test_examples |-> g.test, explanation |-> g.explanation]

\* one pass of the loop body for the record at the cursor: the try block, the
\* except clause, record.extra = extra and scorer_inputs.append(...); reading
\* a name that was never assigned is a NameError that nothing catches
LoopRecord ==
    /\ script_pc = "loop"
    /\ cursor <= Len(records)
    /\ LET r == cursor
           g == TryBlock(r, globals)
       IN  /\ globals' = g
           /\ logged' = IF ExceptLogs(r) THEN Append(logged, r) ELSE logged
           /\ IF g.extra = Unbound
              THEN /\ script_pc' = "aborted"
                   /\ UNCHANGED <<cursor, scorer_inputs, record_extra>>
              ELSE /\ record_extra' = [record_extra EXCEPT ![r] = g.extra]
                   /\ scorer_inputs' = Append(scorer_inputs, ScorerInput(r, g))
                   /\ cursor' = cursor + 1
                   /\ UNCHANGED script_pc
    /\ UNCHANGED <<recallVars, records>>

\* the loop has gone through every record; the script goes on to the scorer
LoopExit ==
    /\ script_pc = "loop"
    /\ cursor > Len(records)
    /\ script_pc' = "done"
    /\ UNCHANGED <<recallVars, records, cursor, globals, scorer_inputs,
                   record_extra, logged>>

\* the script run on its own: no scoring call is in progress
InitScore ==
    /\ random_examples = <<>>
    /\ test_examples = <<>>
    /\ explanation \in Explanations
    /\ batch_size = 1
    /\ samples = <<>>
    /\ batches = <<>>
    /\ pc = "new"
    /\ tasks = <<>>
    /\ requests = <<>>
    /\ done_order = <<>>
    /\ last = NoOutcome
    /\ gather_exc = ""
    /\ raised = ""
    /\ returned = <<>>
    /\ callbacks = <<>>
    /\ fail_order = <<>>
    /\ gather_from = 0
    /\ \E recs \in SeqsUpTo(RecordOutcomes, MaxRecords) : ScriptStart(recs)

NextScore == LoopRecord \/ LoopExit

SpecScore == InitScore /\ [][NextScore]_vars

-----------------------------------------------------------------------------
(* Properties of the record loop, checked under SpecScore *)

\* the records the loop has gone past
Handled == 1..(cursor - 1)

\* C20: when loading the explanation or sampling fails for a record, the
\* failure is logged and the record is skipped: no ScorerInput is appended for
\* it, and the run goes on with the next record instead of aborting.
FailedRecordSkipped ==
    /\ script_pc # "aborted"
    /\ \A k \in 1..Len(scorer_inputs) : records[scorer_inputs[k].record] = "ok"
    /\ \A r \in Handled : records[r] # "ok" =>
          \E k \in 1..Len(logged) : logged[k] = r

====
